---- MODULE Spec2Model ----
(***************************************************************************)
(* Crazy Eights (src/src/App.tsx): one human player against one computer   *)
(* opponent.  The React component keeps the whole game in one state value  *)
(* (gameState), a flag isAiThinking, and at most one pending setTimeout    *)
(* that runs the opponent's move.                                          *)
(*                                                                         *)
(* Every request is handled by the handler of the current render, so a     *)
(* handler sees the gameState that is current when it runs; the motion     *)
(* library's enter and exit animations are presentation and not modelled.  *)
(*                                                                         *)
(* Three specifications are given.                                         *)
(*   Spec         the component as React schedules it: handlers, the two   *)
(*                effects, the timer and its cleanup, driven by the        *)
(*                requests the user interface offers.                      *)
(*   TurnSpec     the same handlers with the opponent's move               *)
(*                (handleAiTurn) applied whenever its trigger condition    *)
(*                holds (turn = ai, status = playing), i.e. the rules of   *)
(*                the game independent of how the timer is scheduled.      *)
(*   RequestSpec  Spec with suit choices requested in every status, not    *)
(*                only where the suit picker is rendered.                  *)
(*   LateSpec     the handlers of TurnSpec applied to games late in play,  *)
(*                when the hands are small and the draw pile is used up or *)
(*                nearly so.                                               *)
(***************************************************************************)
EXTENDS Integers, Sequences, FiniteSets, TLC

(***************************************************************************)
(* Bounds of the model.                                                    *)
(***************************************************************************)
\* number of shuffle outcomes a deal may draw from
NumShuffles == 8
\* number of cards the player may draw from the pile in one game
MaxDraws == 1
\* late in play: the most cards in each hand
LateHand == 3
\* late in play: the most cards left in the draw pile
LatePile == 1

(***************************************************************************)
(* Cards.  A card is identified by its id (1..52); hands and piles hold    *)
(* ids, suit and rank are looked up in the deck.                           *)
(***************************************************************************)
INITIAL_HAND_SIZE == 8

Suit == <<"hearts", "diamonds", "clubs", "spades">>
Rank == <<"A", "2", "3", "4", "5", "6", "7", "8", "9", "10", "J", "Q", "K">>

\* createDeck(): the 52 (suit, rank) combinations in canonical order
createDeck ==
  [i \in 1..(Len(Suit) * Len(Rank)) |->
     [id |-> i,
      suit |-> Suit[((i - 1) \div Len(Rank)) + 1],
      rank |-> Rank[((i - 1) % Len(Rank)) + 1]]]

DeckSize == Len(createDeck)
CardIds == 1..DeckSize

suitOf(c) == createDeck[c].suit
rankOf(c) == createDeck[c].rank

\* the id of the card of suit number s (1..4) and rank number r (1..13)
CardOf(s, r) == (s - 1) * Len(Rank) + r

(***************************************************************************)
(* Sequence helpers (Array.prototype.filter / findIndex / splice).         *)
(***************************************************************************)
Range(s) == {s[i] : i \in 1..Len(s)}

\* s.filter((_, i) => i !== k)
RemoveAt(s, k) == [i \in 1..(Len(s) - 1) |-> IF i < k THEN s[i] ELSE s[i + 1]]

\* variant: the first card is dropped, whatever its id
FilterOutId_dropsFirst(s, id) == Tail(s)

\* s.filter(c => c.id !== id)
FilterOutId(s, id) == SelectSeq(s, LAMBDA c : c # id)

\* variant: the last index that satisfies P
FindIndex_last(hit) ==
  IF \E i \in 1..Len(hit) : hit[i]
    THEN CHOOSE i \in 1..Len(hit) : hit[i] /\ \A j \in (i + 1)..Len(hit) : ~hit[j]
    ELSE 0

\* s.findIndex(P), given hit[i] = P(s[i]): the first index that satisfies
\* P, 0 if there is none
FindIndex(hit) ==
  IF \E i \in 1..Len(hit) : hit[i]
    THEN CHOOSE i \in 1..Len(hit) : hit[i] /\ \A j \in 1..(i - 1) : ~hit[j]
    ELSE 0

(***************************************************************************)
(* shuffle(deck): any permutation of the deck.  The model draws the        *)
(* permutation from a bounded family: two deals written out and affine     *)
(* cuts i |-> a*i + b (mod 52).                                            *)
(***************************************************************************)
\* the player holds a run of cards that can be played out one after the
\* other, the 8 last; the opponent holds spades only
RunOutFront ==
  << CardOf(1, 9), CardOf(3, 9), CardOf(3, 3), CardOf(2, 3),
     CardOf(2, 11), CardOf(4, 11), CardOf(4, 5), CardOf(1, 8),
     CardOf(4, 1), CardOf(4, 2), CardOf(4, 4), CardOf(4, 6),
     CardOf(4, 7), CardOf(4, 10), CardOf(4, 12), CardOf(4, 13),
     CardOf(1, 13), CardOf(1, 1), CardOf(1, 2), CardOf(1, 4),
     CardOf(1, 5), CardOf(1, 6) >>

\* the first card left after the two hands is an 8; the player holds spades
\* only and cannot follow the first discard
EightFirstFront ==
  << CardOf(4, 1), CardOf(4, 2), CardOf(4, 4), CardOf(4, 6),
     CardOf(4, 7), CardOf(4, 10), CardOf(4, 12), CardOf(4, 13),
     CardOf(3, 5), CardOf(3, 9), CardOf(2, 9), CardOf(2, 11),
     CardOf(1, 11), CardOf(1, 3), CardOf(3, 3), CardOf(2, 8),
     CardOf(3, 8), CardOf(1, 5) >>

\* the front cards first, the other cards after them in deck order
FrontCut(front) ==
  front \o SelectSeq([i \in 1..DeckSize |-> i], LAMBDA c : c \notin Range(front))

AffineCut(a, b) == [i \in 1..DeckSize |-> (((a * (i - 1)) + b) % DeckSize) + 1]

ShuffleOutcomes ==
  << FrontCut(RunOutFront), AffineCut(21, 28), FrontCut(EightFirstFront),
     AffineCut(49, 11), AffineCut(3, 9), AffineCut(43, 12), AffineCut(41, 26),
     AffineCut(7, 3), AffineCut(11, 40) >>

\* shuffle(createDeck()) with outcome k: the ids of the deck in shuffled order
shuffle(k) == [i \in 1..DeckSize |-> createDeck[ShuffleOutcomes[k][i]].id]

(***************************************************************************)
(* State.                                                                  *)
(***************************************************************************)
VARIABLES
  gameState,      \* useState<GameState>
  isAiThinking,   \* useState(false)
  timer,          \* the pending setTimeout of the AI effect: <<>> when none,
                  \* else <<gs>> with gs the gameState its callback closed over
  draws,          \* cards the player has drawn in this game
  lastOp          \* the handler that ran last

vars == <<gameState, isAiThinking, timer, draws, lastOp>>

\* the fields of gameState that hold cards
Zones(gs) == gs.playerHand \o gs.aiHand \o gs.drawPile \o gs.discardPile

(***************************************************************************)
(* initGame: the deal.                                                     *)
(***************************************************************************)
\* variant: the first card left after the hands starts the discard pile
initGame_firstCard(k) ==
  LET deck == shuffle(k)
      playerHand == SubSeq(deck, 1, INITIAL_HAND_SIZE)
      aiHand == SubSeq(deck, INITIAL_HAND_SIZE + 1, 2 * INITIAL_HAND_SIZE)
      rest == SubSeq(deck, 2 * INITIAL_HAND_SIZE + 1, Len(deck))
      firstCardIndex == 1
      discardPile == <<rest[firstCardIndex]>>
      drawPile == RemoveAt(rest, firstCardIndex)
  IN [playerHand |-> playerHand,
      aiHand |-> aiHand,
      drawPile |-> drawPile,
      discardPile |-> discardPile,
      currentSuit |-> suitOf(discardPile[1]),
      currentRank |-> rankOf(discardPile[1]),
      turn |-> "player",
      status |-> "playing",
      winner |-> "null"]

initGame(k) ==
  LET deck == shuffle(k)
      playerHand == SubSeq(deck, 1, INITIAL_HAND_SIZE)
      aiHand == SubSeq(deck, INITIAL_HAND_SIZE + 1, 2 * INITIAL_HAND_SIZE)
      rest == SubSeq(deck, 2 * INITIAL_HAND_SIZE + 1, Len(deck))
      \* while (deck[firstCardIndex].rank === '8') firstCardIndex++
      firstCardIndex == FindIndex([i \in 1..Len(rest) |-> rankOf(rest[i]) # "8"])
      discardPile == <<rest[firstCardIndex]>>
      drawPile == RemoveAt(rest, firstCardIndex)
  IN [playerHand |-> playerHand,
      aiHand |-> aiHand,
      drawPile |-> drawPile,
      discardPile |-> discardPile,
      currentSuit |-> suitOf(discardPile[1]),
      currentRank |-> rankOf(discardPile[1]),
      turn |-> "player",
      status |-> "playing",
      winner |-> "null"]

(***************************************************************************)
(* The effects.  After every state update React re-renders and runs the    *)
(* effects whose dependencies changed, until nothing changes.              *)
(***************************************************************************)
\* variant: the two winners exchanged
CheckForWin_winnersSwapped(gs) ==
  IF gs.status = "playing"
    THEN IF Len(gs.playerHand) = 0
           THEN [gs EXCEPT !.status = "game-over", !.winner = "ai"]
           ELSE IF Len(gs.aiHand) = 0
                  THEN [gs EXCEPT !.status = "game-over", !.winner = "player"]
                  ELSE gs
    ELSE gs

\* useEffect "Check for Win"
CheckForWin(gs) ==
  IF gs.status = "playing"
    THEN IF Len(gs.playerHand) = 0
           THEN [gs EXCEPT !.status = "game-over", !.winner = "player"]
           ELSE IF Len(gs.aiHand) = 0
                  THEN [gs EXCEPT !.status = "game-over", !.winner = "ai"]
                  ELSE gs
    ELSE gs

\* variant: the effect returns no cleanup, a pending timer stays pending
clearTimeout_noCleanup(tmr) == tmr

\* the cleanup the AI effect returns: () => clearTimeout(timer)
clearTimeout(tmr) == <<>>

\* the dependency list of the AI effect
AiDeps(gs, thinking) == <<gs.turn, gs.status, thinking>>

\* useEffect "AI Turn Logic", one run for the render (gs, thinking); oldDeps
\* are the dependencies of the previous render, tmr the timer pending then.
\* A changed dependency first runs the cleanup of the previous run.
AiTurnLogic(oldDeps, gs, thinking, tmr) ==
  IF AiDeps(gs, thinking) = oldDeps
    THEN [isAiThinking |-> thinking, timer |-> tmr]
    ELSE IF gs.status = "playing" /\ gs.turn = "ai" /\ ~thinking
           THEN [isAiThinking |-> TRUE, timer |-> <<gs>>]
           ELSE [isAiThinking |-> thinking, timer |-> clearTimeout(tmr)]

\* The renders that follow an update to (gs, thinking): the first render runs
\* both effects on gs; what they set (status, winner, isAiThinking) is
\* rendered again, and the effects run on that.  The third render changes
\* nothing any more.
Commit(gs, thinking, tmr) ==
  LET deps0 == AiDeps(gameState, isAiThinking)
      ai1 == AiTurnLogic(deps0, gs, thinking, tmr)
      gs1 == CheckForWin(gs)
      ai2 == AiTurnLogic(AiDeps(gs, thinking), gs1, ai1.isAiThinking, ai1.timer)
      gs2 == CheckForWin(gs1)
  IN [gameState |-> gs2, isAiThinking |-> ai2.isAiThinking, timer |-> ai2.timer]

Render(gs, thinking, tmr) ==
  LET c == Commit(gs, thinking, tmr)
  IN /\ gameState' = c.gameState
     /\ isAiThinking' = c.isAiThinking
     /\ timer' = c.timer

(***************************************************************************)
(* The handlers, as functions of the gameState they closed over (gs) and   *)
(* of the state the update is applied to (prev).                           *)
(***************************************************************************)
\* variant: the rank of the card is not compared
isValid_suitOnly(gs, card) ==
  rankOf(card) = "8" \/ suitOf(card) = gs.currentSuit

\* const isValid = isEight || card.suit === currentSuit || card.rank === currentRank
isValid(gs, card) ==
  rankOf(card) = "8" \/ suitOf(card) = gs.currentSuit \/ rankOf(card) = gs.currentRank

\* variant: an 8 sets currentRank at once
playCard_setsRank(gs, prev, card) ==
  IF gs.turn # "player" \/ gs.status # "playing" THEN prev
  ELSE IF ~isValid(gs, card) THEN prev
  ELSE LET newPlayerHand == FilterOutId(gs.playerHand, card)
       IN IF rankOf(card) = "8"
            THEN [prev EXCEPT !.playerHand = newPlayerHand,
                              !.discardPile = <<card>> \o prev.discardPile,
                              !.currentRank = "8",
                              !.status = "suit-picking"]
            ELSE [prev EXCEPT !.playerHand = newPlayerHand,
                              !.discardPile = <<card>> \o prev.discardPile,
                              !.currentSuit = suitOf(card),
                              !.currentRank = rankOf(card),
                              !.turn = "ai"]

playCard(gs, prev, card) ==
  IF gs.turn # "player" \/ gs.status # "playing" THEN prev
  ELSE IF ~isValid(gs, card) THEN prev
  ELSE LET newPlayerHand == FilterOutId(gs.playerHand, card)
       IN IF rankOf(card) = "8"
            THEN [prev EXCEPT !.playerHand = newPlayerHand,
                              !.discardPile = <<card>> \o prev.discardPile,
                              !.status = "suit-picking"]
            ELSE [prev EXCEPT !.playerHand = newPlayerHand,
                              !.discardPile = <<card>> \o prev.discardPile,
                              !.currentSuit = suitOf(card),
                              !.currentRank = rankOf(card),
                              !.turn = "ai"]

\* variant: the highlight does not look at whose turn it is
isPlayable_ignoresTurn(gs, card) ==
  /\ gs.status = "playing"
  /\ (rankOf(card) = "8" \/ suitOf(card) = gs.currentSuit
        \/ rankOf(card) = gs.currentRank)

\* the hand view: const isPlayable = turn === 'player' && status === 'playing'
\*   && (card.rank === '8' || card.suit === currentSuit || card.rank === currentRank)
isPlayable(gs, card) ==
  /\ gs.turn = "player"
  /\ gs.status = "playing"
  /\ (rankOf(card) = "8" \/ suitOf(card) = gs.currentSuit
        \/ rankOf(card) = gs.currentRank)

\* variant: the drawn card is not taken off the draw pile
drawCard_keepsPile(gs, prev) ==
  IF gs.turn # "player" \/ gs.status # "playing" THEN prev
  ELSE IF Len(gs.drawPile) = 0 THEN [prev EXCEPT !.turn = "ai"]
  ELSE [prev EXCEPT !.playerHand = Append(prev.playerHand, Head(gs.drawPile)),
                    !.turn = "ai"]

\* variant: the turn is not checked
drawCard_noTurnCheck(gs, prev) ==
  IF gs.status # "playing" THEN prev
  ELSE IF Len(gs.drawPile) = 0 THEN [prev EXCEPT !.turn = "ai"]
  ELSE [prev EXCEPT !.playerHand = Append(prev.playerHand, Head(gs.drawPile)),
                    !.drawPile = Tail(gs.drawPile),
                    !.turn = "ai"]

\* variant: with an empty draw pile the turn is not passed
drawCard_emptyKeepsTurn(gs, prev) ==
  IF gs.turn # "player" \/ gs.status # "playing" THEN prev
  ELSE IF Len(gs.drawPile) = 0 THEN prev
  ELSE [prev EXCEPT !.playerHand = Append(prev.playerHand, Head(gs.drawPile)),
                    !.drawPile = Tail(gs.drawPile),
                    !.turn = "ai"]

drawCard(gs, prev) ==
  IF gs.turn # "player" \/ gs.status # "playing" THEN prev
  ELSE IF Len(gs.drawPile) = 0 THEN [prev EXCEPT !.turn = "ai"]
  ELSE [prev EXCEPT !.playerHand = Append(prev.playerHand, Head(gs.drawPile)),
                    !.drawPile = Tail(gs.drawPile),
                    !.turn = "ai"]

\* variant: the turn is not passed to the opponent
pickSuit_keepsTurn(prev, suit) ==
  [prev EXCEPT !.currentSuit = suit,
               !.currentRank = "8",
               !.status = "playing"]

\* variant: the rank is not forced to 8
pickSuit_keepsRank(prev, suit) ==
  [prev EXCEPT !.currentSuit = suit,
               !.status = "playing",
               !.turn = "ai"]

pickSuit(prev, suit) ==
  [prev EXCEPT !.currentSuit = suit,
               !.currentRank = "8",
               !.status = "playing",
               !.turn = "ai"]

\* suitCounts[s]: the cards of suit s in hand
suitCounts(hand, s) == Cardinality({i \in 1..Len(hand) : suitOf(hand[i]) = s})

\* variant: the reducer compares with >=, keeping the earlier suit on a tie
RECURSIVE reduceBest_keepsEarlier(_, _, _)
reduceBest_keepsEarlier(hand, a, i) ==
  IF i > Len(Suit) THEN a
  ELSE reduceBest_keepsEarlier(hand,
         IF suitCounts(hand, a) >= suitCounts(hand, Suit[i]) THEN a ELSE Suit[i],
         i + 1)

\* Object.keys(suitCounts).reduce((a, b) => suitCounts[a] > suitCounts[b] ? a : b)
RECURSIVE reduceBest(_, _, _)
reduceBest(hand, a, i) ==
  IF i > Len(Suit) THEN a
  ELSE reduceBest(hand,
                  IF suitCounts(hand, a) > suitCounts(hand, Suit[i]) THEN a ELSE Suit[i],
                  i + 1)

bestSuit(hand) == reduceBest(hand, Suit[1], 2)

\* variant: with nothing to play and nothing to draw the turn is not passed
handleAiTurn_skipKeepsTurn(gs, prev) ==
  LET playableIndex ==
        FindIndex([i \in 1..Len(gs.aiHand) |->
                     rankOf(gs.aiHand[i]) # "8" /\
                     (suitOf(gs.aiHand[i]) = gs.currentSuit \/
                      rankOf(gs.aiHand[i]) = gs.currentRank)])
      eightIndex == FindIndex([i \in 1..Len(gs.aiHand) |-> rankOf(gs.aiHand[i]) = "8"])
  IN IF playableIndex # 0
       THEN LET card == gs.aiHand[playableIndex]
            IN [prev EXCEPT !.aiHand = RemoveAt(gs.aiHand, playableIndex),
                            !.discardPile = <<card>> \o prev.discardPile,
                            !.currentSuit = suitOf(card),
                            !.currentRank = rankOf(card),
                            !.turn = "player"]
     ELSE IF eightIndex # 0
       THEN LET card == gs.aiHand[eightIndex]
                newAiHand == RemoveAt(gs.aiHand, eightIndex)
            IN [prev EXCEPT !.aiHand = newAiHand,
                            !.discardPile = <<card>> \o prev.discardPile,
                            !.currentSuit = bestSuit(newAiHand),
                            !.currentRank = "8",
                            !.turn = "player"]
     ELSE IF Len(gs.drawPile) > 0
       THEN [prev EXCEPT !.aiHand = Append(prev.aiHand, Head(gs.drawPile)),
                         !.drawPile = Tail(gs.drawPile),
                         !.turn = "player"]
     ELSE prev

\* variant: the match branch also draws a card
handleAiTurn_drawAfterPlay(gs, prev) ==
  LET playableIndex ==
        FindIndex([i \in 1..Len(gs.aiHand) |->
                     rankOf(gs.aiHand[i]) # "8" /\
                     (suitOf(gs.aiHand[i]) = gs.currentSuit \/
                      rankOf(gs.aiHand[i]) = gs.currentRank)])
      eightIndex == FindIndex([i \in 1..Len(gs.aiHand) |-> rankOf(gs.aiHand[i]) = "8"])
  IN IF playableIndex # 0
       THEN LET card == gs.aiHand[playableIndex]
            IN [prev EXCEPT !.aiHand = IF Len(gs.drawPile) > 0
                                         THEN Append(RemoveAt(gs.aiHand, playableIndex),
                                                     Head(gs.drawPile))
                                         ELSE RemoveAt(gs.aiHand, playableIndex),
                            !.drawPile = IF Len(gs.drawPile) > 0
                                           THEN Tail(gs.drawPile) ELSE gs.drawPile,
                            !.discardPile = <<card>> \o prev.discardPile,
                            !.currentSuit = suitOf(card),
                            !.currentRank = rankOf(card),
                            !.turn = "player"]
     ELSE IF eightIndex # 0
       THEN LET card == gs.aiHand[eightIndex]
                newAiHand == RemoveAt(gs.aiHand, eightIndex)
            IN [prev EXCEPT !.aiHand = newAiHand,
                            !.discardPile = <<card>> \o prev.discardPile,
                            !.currentSuit = bestSuit(newAiHand),
                            !.currentRank = "8",
                            !.turn = "player"]
     ELSE IF Len(gs.drawPile) > 0
       THEN [prev EXCEPT !.aiHand = Append(prev.aiHand, Head(gs.drawPile)),
                         !.drawPile = Tail(gs.drawPile),
                         !.turn = "player"]
     ELSE [prev EXCEPT !.turn = "player"]

\* variant: the suit to follow is read off the discard head
handleAiTurn_followsHead(gs, prev) ==
  LET playableIndex ==
        FindIndex([i \in 1..Len(gs.aiHand) |->
                     rankOf(gs.aiHand[i]) # "8" /\
                     (suitOf(gs.aiHand[i]) = suitOf(Head(gs.discardPile)) \/
                      rankOf(gs.aiHand[i]) = gs.currentRank)])
      eightIndex == FindIndex([i \in 1..Len(gs.aiHand) |-> rankOf(gs.aiHand[i]) = "8"])
  IN IF playableIndex # 0
       THEN LET card == gs.aiHand[playableIndex]
            IN [prev EXCEPT !.aiHand = RemoveAt(gs.aiHand, playableIndex),
                            !.discardPile = <<card>> \o prev.discardPile,
                            !.currentSuit = suitOf(card),
                            !.currentRank = rankOf(card),
                            !.turn = "player"]
     ELSE IF eightIndex # 0
       THEN LET card == gs.aiHand[eightIndex]
                newAiHand == RemoveAt(gs.aiHand, eightIndex)
            IN [prev EXCEPT !.aiHand = newAiHand,
                            !.discardPile = <<card>> \o prev.discardPile,
                            !.currentSuit = bestSuit(newAiHand),
                            !.currentRank = "8",
                            !.turn = "player"]
     ELSE IF Len(gs.drawPile) > 0
       THEN [prev EXCEPT !.aiHand = Append(prev.aiHand, Head(gs.drawPile)),
                         !.drawPile = Tail(gs.drawPile),
                         !.turn = "player"]
     ELSE [prev EXCEPT !.turn = "player"]

handleAiTurn(gs, prev) ==
  LET playableIndex ==
        FindIndex([i \in 1..Len(gs.aiHand) |->
                     rankOf(gs.aiHand[i]) # "8" /\
                     (suitOf(gs.aiHand[i]) = gs.currentSuit \/
                      rankOf(gs.aiHand[i]) = gs.currentRank)])
      eightIndex == FindIndex([i \in 1..Len(gs.aiHand) |-> rankOf(gs.aiHand[i]) = "8"])
  IN IF playableIndex # 0
       THEN LET card == gs.aiHand[playableIndex]
            IN [prev EXCEPT !.aiHand = RemoveAt(gs.aiHand, playableIndex),
                            !.discardPile = <<card>> \o prev.discardPile,
                            !.currentSuit = suitOf(card),
                            !.currentRank = rankOf(card),
                            !.turn = "player"]
     ELSE IF eightIndex # 0
       THEN LET card == gs.aiHand[eightIndex]
                newAiHand == RemoveAt(gs.aiHand, eightIndex)
            IN [prev EXCEPT !.aiHand = newAiHand,
                            !.discardPile = <<card>> \o prev.discardPile,
                            !.currentSuit = bestSuit(newAiHand),
                            !.currentRank = "8",
                            !.turn = "player"]
     ELSE IF Len(gs.drawPile) > 0
       THEN [prev EXCEPT !.aiHand = Append(prev.aiHand, Head(gs.drawPile)),
                         !.drawPile = Tail(gs.drawPile),
                         !.turn = "player"]
     ELSE [prev EXCEPT !.turn = "player"]

(***************************************************************************)
(* Initial state: the component as mounted.                                *)
(***************************************************************************)
Init ==
  /\ gameState = [playerHand |-> <<>>, aiHand |-> <<>>, drawPile |-> <<>>,
                  discardPile |-> <<>>, currentSuit |-> "hearts",
                  currentRank |-> "A", turn |-> "player", status |-> "waiting",
                  winner |-> "null"]
  /\ isAiThinking = FALSE
  /\ timer = <<>>
  /\ draws = 0
  /\ lastOp = "none"

(***************************************************************************)
(* Actions: one per handler the user interface can reach.                  *)
(***************************************************************************)
\* the start, restart and play-again buttons
InitGame ==
  \E k \in 1..NumShuffles :
    /\ Render(initGame(k), isAiThinking, timer)
    /\ draws' = 0
    /\ lastOp' = "initGame"

\* a click on a card of the player's hand (the hand is rendered once a game
\* has been started; the buttons are never disabled)
PlayCardOf(card) ==
  /\ card \in Range(gameState.playerHand)
  /\ gameState.status # "waiting"
  /\ Render(playCard(gameState, gameState, card), isAiThinking, timer)
  /\ lastOp' = "playCard"
  /\ UNCHANGED draws

PlayCard == \E card \in CardIds : PlayCardOf(card)

\* a drawCard request (the draw pile is rendered once a game has been
\* started; the disabled attribute of the button repeats the guard of the
\* handler, which is what is modelled)
DrawCard ==
  /\ gameState.status # "waiting"
  /\ draws < MaxDraws
  /\ Render(drawCard(gameState, gameState), isAiThinking, timer)
  /\ draws' = IF gameState' # gameState THEN draws + 1 ELSE draws
  /\ lastOp' = "drawCard"

\* a suit choice, whatever the status
PickSuitOf(suit) ==
  /\ Render(pickSuit(gameState, suit), isAiThinking, timer)
  /\ lastOp' = "pickSuit"
  /\ UNCHANGED draws

\* a click on a suit of the suit picker, which is rendered while status is
\* suit-picking
PickSuit ==
  \E suit \in Range(Suit) : gameState.status = "suit-picking" /\ PickSuitOf(suit)

\* a suit choice requested outside suit-picking
PickSuitRequest ==
  \E suit \in Range(Suit) : gameState.status # "suit-picking" /\ PickSuitOf(suit)

\* variant: the opponent's move is applied whatever the turn and the status
AdvanceOpponentTurn_unguarded ==
  /\ gameState.status # "waiting"
  /\ Render(handleAiTurn(gameState, gameState), FALSE, <<>>)
  /\ lastOp' = "aiTurn"
  /\ UNCHANGED draws

\* the opponent's move (the callback the AI effect hands to setTimeout)
\* applied on the trigger condition of the effect
AdvanceOpponentTurn ==
  /\ gameState.turn = "ai"
  /\ gameState.status = "playing"
  /\ Render(handleAiTurn(gameState, gameState), FALSE, <<>>)
  /\ lastOp' = "aiTurn"
  /\ UNCHANGED draws

\* "back to the main menu" of the game-over dialog
BackToMenu ==
  /\ gameState.status = "game-over"
  /\ Render([gameState EXCEPT !.status = "waiting"], isAiThinking, timer)
  /\ lastOp' = "menu"
  /\ UNCHANGED draws

\* The steps of the component.  The callback of the timer is none of them:
\* the commit that sets the timer also clears it (Commit), so that no timer
\* is pending when the next event is handled.
Next ==
  \/ InitGame
  \/ PlayCard
  \/ DrawCard
  \/ PickSuit

Spec == Init /\ [][Next]_vars

TurnNext ==
  \/ InitGame
  \/ PlayCard
  \/ DrawCard
  \/ PickSuit
  \/ AdvanceOpponentTurn
  \/ BackToMenu

TurnSpec == Init /\ [][TurnNext]_vars

\* late in play the player holds two 8s and the opponent neither an 8 nor a
\* club
TwoEightsFront ==
  << CardOf(1, 8), CardOf(2, 8), CardOf(2, 2), CardOf(4, 1),
     CardOf(4, 2), CardOf(1, 3), CardOf(2, 4), CardOf(1, 5) >>

\* the decks of the games late in play: the shuffle outcomes, and as deck 0
\* the one that starts with TwoEightsFront
LateDeck(k) == IF k = 0 THEN FrontCut(TwoEightsFront) ELSE shuffle(k)

\* A game late in play: deck k with the player holding p cards, the opponent
\* a cards, d cards left to draw and all other cards discarded, the active
\* card not an 8; it is the player's turn.
LateState(k, p, a, d) ==
  LET deck == LateDeck(k)
      rest == SubSeq(deck, p + a + d + 1, Len(deck))
      top == FindIndex([i \in 1..Len(rest) |-> rankOf(rest[i]) # "8"])
  IN [playerHand |-> SubSeq(deck, 1, p),
      aiHand |-> SubSeq(deck, p + 1, p + a),
      drawPile |-> SubSeq(deck, p + a + 1, p + a + d),
      discardPile |-> <<rest[top]>> \o RemoveAt(rest, top),
      currentSuit |-> suitOf(rest[top]),
      currentRank |-> rankOf(rest[top]),
      turn |-> "player",
      status |-> "playing",
      winner |-> "null"]

LateInit ==
  /\ \E k \in 0..NumShuffles, p \in 1..LateHand, a \in 1..LateHand,
        d \in 0..LatePile :
       gameState = LateState(k, p, a, d)
  /\ isAiThinking = FALSE
  /\ timer = <<>>
  /\ draws = 0
  /\ lastOp = "none"

LateNext ==
  \/ PlayCard
  \/ DrawCard
  \/ PickSuit
  \/ AdvanceOpponentTurn
  \/ BackToMenu

LateSpec == LateInit /\ [][LateNext]_vars

RequestNext ==
  \/ Next
  \/ PickSuitRequest
  \/ BackToMenu

RequestSpec == Init /\ [][RequestNext]_vars

(***************************************************************************)
(* Vocabulary of the properties.                                           *)
(***************************************************************************)
Started(gs) == gs.status \in {"playing", "suit-picking", "game-over"}

\* the rule of the game: an 8, the current suit or the current rank
Legal(card, suit, rank) ==
  rankOf(card) = "8" \/ suitOf(card) = suit \/ rankOf(card) = rank

\* the step put a card on the discard pile
Discarded == Len(gameState'.discardPile) = Len(gameState.discardPile) + 1

PlayersTurn == gameState.turn = "player" /\ gameState.status = "playing"

\* the number of cards of the suit in the hand
CardsOfSuit(hand, suit) == Cardinality({c \in Range(hand) : suitOf(c) = suit})

MaxOfSuits(hand) ==
  CHOOSE n \in 0..Len(hand) :
    /\ \E i \in 1..Len(Suit) : CardsOfSuit(hand, Suit[i]) = n
    /\ \A i \in 1..Len(Suit) : CardsOfSuit(hand, Suit[i]) <= n

\* the first and the last suit, in the order hearts, diamonds, clubs,
\* spades, holding the most cards of the hand
FirstMaxSuit(hand) ==
  Suit[CHOOSE i \in 1..Len(Suit) :
         /\ CardsOfSuit(hand, Suit[i]) = MaxOfSuits(hand)
         /\ \A j \in 1..(i - 1) : CardsOfSuit(hand, Suit[j]) < MaxOfSuits(hand)]

LastMaxSuit(hand) ==
  Suit[CHOOSE i \in 1..Len(Suit) :
         /\ CardsOfSuit(hand, Suit[i]) = MaxOfSuits(hand)
         /\ \A j \in (i + 1)..Len(Suit) : CardsOfSuit(hand, Suit[j]) < MaxOfSuits(hand)]

\* the step is the opponent playing an 8
OpponentPlaysEight ==
  /\ lastOp' = "aiTurn"
  /\ Discarded
  /\ rankOf(Head(gameState'.discardPile)) = "8"

\* the card follows the active suit or rank and is no 8
Matches(gs, c) ==
  rankOf(c) # "8" /\ (suitOf(c) = gs.currentSuit \/ rankOf(c) = gs.currentRank)

\* the opponent holds a card that follows, the opponent holds an 8
AiCanMatch(gs) == \E c \in Range(gs.aiHand) : Matches(gs, c)
AiHoldsEight(gs) == \E c \in Range(gs.aiHand) : rankOf(c) = "8"

\* the position in the opponent's hand of the first card that follows
FirstMatch(gs) ==
  CHOOSE i \in 1..Len(gs.aiHand) :
    /\ Matches(gs, gs.aiHand[i])
    /\ \A j \in 1..(i - 1) : ~Matches(gs, gs.aiHand[j])

\* the games late in play whose draw pile is used up
LateEmptyPile ==
  {LateState(k, p, a, 0) : k \in 0..NumShuffles, p \in 1..LateHand, a \in 1..LateHand}

\* the games late in play
LateStates ==
  {LateState(k, p, a, d) : k \in 0..NumShuffles, p \in 1..LateHand,
                           a \in 1..LateHand, d \in 0..LatePile}

\* what the player's move can make of a game: a draw, a play, an 8 and a suit
PlayerMoves(gs) ==
  {drawCard(gs, gs)}
    \cup {playCard(gs, gs, c) : c \in {h \in Range(gs.playerHand) : rankOf(h) # "8"}}
    \cup {pickSuit(playCard(gs, gs, c), Suit[n]) :
            c \in {h \in Range(gs.playerHand) : rankOf(h) = "8"}, n \in 1..Len(Suit)}

\* the states the opponent finds after the player's first move late in play
OpeningStates ==
  {gs \in UNION {PlayerMoves(late) : late \in LateStates} :
     gs.turn = "ai" /\ gs.status = "playing" /\ gs.playerHand # <<>>}

\* the two states show the opponent the same hand, active suit and rank and
\* draw pile
SameForOpponent(g, t) ==
  /\ g.aiHand = t.aiHand
  /\ g.currentSuit = t.currentSuit
  /\ g.currentRank = t.currentRank
  /\ g.drawPile = t.drawPile

(***************************************************************************)
(* C1. Card conservation: in every state of a started game each of the 52  *)
(* card ids occurs exactly once in playerHand, aiHand, drawPile and        *)
(* discardPile taken together.                                             *)
(***************************************************************************)
C1_Conservation ==
  Started(gameState) =>
    /\ Len(Zones(gameState)) = DeckSize
    /\ Range(Zones(gameState)) = CardIds

\* both sides have moved cards: the opponent has just acted, the player has
\* drawn, and cards have been played
C1_Witness ==
  /\ lastOp = "aiTurn"
  /\ draws > 0
  /\ Len(gameState.discardPile) > 3
  /\ Len(gameState.aiHand) # INITIAL_HAND_SIZE

(***************************************************************************)
(* C2. On the player's turn in status playing, playCard accepts a card     *)
(* exactly when it is an 8 or matches currentSuit or currentRank; any      *)
(* other card is rejected and the game state is unchanged.                 *)
(***************************************************************************)
C2_Legality ==
  [][\A card \in Range(gameState.playerHand) :
       (lastOp' = "playCard" /\ PlayersTurn /\ PlayCardOf(card)) =>
         IF Legal(card, gameState.currentSuit, gameState.currentRank)
           THEN /\ card \notin Range(gameState'.playerHand)
                /\ Head(gameState'.discardPile) = card
                /\ Discarded
           ELSE gameState' = gameState]_vars

\* a play has just been rejected on the player's turn
C2_Witness ==
  /\ lastOp = "playCard"
  /\ gameState.turn = "player"
  /\ gameState.status = "playing"
  /\ \E c \in Range(gameState.playerHand) :
       ~Legal(c, gameState.currentSuit, gameState.currentRank)
  /\ \E c \in Range(gameState.playerHand) :
       rankOf(c) = "8" /\ suitOf(c) # gameState.currentSuit

(***************************************************************************)
(* C3. Turn alternation: after an accepted non-8 play or a draw by the     *)
(* player turn is ai; after the player's 8 status is suit-picking and turn *)
(* is still player; after a suit choice turn is ai; after an opponent      *)
(* action turn is player.                                                  *)
(***************************************************************************)
C3_TurnAlternation ==
  [][/\ (lastOp' = "playCard" /\ Discarded
           /\ rankOf(Head(gameState'.discardPile)) # "8")
          => gameState'.turn = "ai"
     /\ (lastOp' = "playCard" /\ Discarded
           /\ rankOf(Head(gameState'.discardPile)) = "8")
          => (gameState'.status = "suit-picking" /\ gameState'.turn = "player")
     /\ (lastOp' = "drawCard" /\ PlayersTurn) => gameState'.turn = "ai"
     /\ (lastOp' = "pickSuit") => gameState'.turn = "ai"
     /\ (lastOp' = "aiTurn") => gameState'.turn = "player"]_vars

\* the opponent has answered a suit choice of the player
C3_Witness ==
  /\ lastOp = "aiTurn"
  /\ gameState.turn = "player"
  /\ gameState.status = "playing"
  /\ Len(gameState.discardPile) > 2
  /\ rankOf(gameState.discardPile[2]) = "8"

(***************************************************************************)
(* C4. Termination: in a started game status is game-over if and only if   *)
(* one of the hands is empty.                                              *)
(***************************************************************************)
C4_Termination ==
  Started(gameState) =>
    (gameState.status = "game-over"
       <=> (Len(gameState.playerHand) = 0 \/ Len(gameState.aiHand) = 0))

(***************************************************************************)
(* C5. Winner: in status game-over the winner is the side whose hand is    *)
(* empty, and the two hands are never both empty in a started game.        *)
(***************************************************************************)
C5_Winner ==
  /\ gameState.status = "game-over" =>
       \/ gameState.winner = "player" /\ Len(gameState.playerHand) = 0
       \/ gameState.winner = "ai" /\ Len(gameState.aiHand) = 0
  /\ Started(gameState) =>
       ~(Len(gameState.playerHand) = 0 /\ Len(gameState.aiHand) = 0)

\* the opponent has won
C5_Witness ==
  /\ gameState.status = "game-over"
  /\ gameState.winner = "ai"
  /\ Len(gameState.aiHand) = 0
  /\ Len(gameState.playerHand) > 0

(***************************************************************************)
(* C6. Opponent trigger: whenever turn = ai and status = playing an        *)
(* opponent move is scheduled; the game never rests in turn = ai, status = *)
(* playing with no opponent move pending.                                  *)
(***************************************************************************)
C6_OpponentScheduled ==
  (gameState.turn = "ai" /\ gameState.status = "playing") => timer # <<>>

C8_PickSuitOnlyWhenPicking ==
  [][(lastOp' = "pickSuit" /\ gameState.status # "suit-picking") =>
       gameState' = gameState]_vars

C10_FirstMaxSuit ==
  [][OpponentPlaysEight =>
       /\ gameState'.currentSuit = FirstMaxSuit(gameState'.aiHand)
       /\ gameState'.currentRank = "8"
       /\ gameState'.turn = "player"]_vars

(***************************************************************************)
(* C10, amended. When the opponent plays an 8, currentSuit becomes the     *)
(* suit with the highest count in the hand left after removing the 8, the  *)
(* LAST of the suits tied for the maximum in the order hearts, diamonds,   *)
(* clubs, spades; currentRank becomes 8 and turn becomes player.           *)
(***************************************************************************)
C10_LastMaxSuit ==
  [][OpponentPlaysEight =>
       /\ gameState'.currentSuit = LastMaxSuit(gameState'.aiHand)
       /\ gameState'.currentRank = "8"
       /\ gameState'.turn = "player"
       /\ Len(gameState'.aiHand) = Len(gameState.aiHand) - 1]_vars

\* the opponent has just played an 8 with two suits tied for the maximum
C10_Witness ==
  /\ lastOp = "aiTurn"
  /\ gameState.discardPile # <<>>
  /\ rankOf(Head(gameState.discardPile)) = "8"
  /\ gameState.currentRank = "8"
  /\ gameState.aiHand # <<>>
  /\ FirstMaxSuit(gameState.aiHand) # LastMaxSuit(gameState.aiHand)
  /\ gameState.currentSuit = LastMaxSuit(gameState.aiHand)

(***************************************************************************)
(* C11. Opponent match rule: when the opponent's hand holds a card that is *)
(* no 8 and follows currentSuit or currentRank, the opponent plays the     *)
(* first such card in hand order: it leaves aiHand, becomes the discard    *)
(* head, currentSuit and currentRank become its suit and rank, turn        *)
(* becomes player, and no card is drawn.                                   *)
(***************************************************************************)
C11_OpponentMatch ==
  [][(lastOp' = "aiTurn" /\ AiCanMatch(gameState)) =>
       LET i == FirstMatch(gameState)
           card == gameState.aiHand[i]
       IN /\ rankOf(card) # "8"
          /\ gameState'.aiHand = RemoveAt(gameState.aiHand, i)
          /\ gameState'.discardPile = <<card>> \o gameState.discardPile
          /\ gameState'.currentSuit = suitOf(card)
          /\ gameState'.currentRank = rankOf(card)
          /\ gameState'.turn = "player"
          /\ gameState'.drawPile = gameState.drawPile
          /\ gameState'.playerHand = gameState.playerHand]_vars

\* the opponent has just followed with a card that is no 8 while holding an
\* 8 and another card of the suit it played
C11_Witness ==
  /\ lastOp = "aiTurn"
  /\ gameState.status = "playing"
  /\ Len(gameState.discardPile) > 1
  /\ rankOf(Head(gameState.discardPile)) # "8"
  /\ gameState.currentSuit = suitOf(Head(gameState.discardPile))
  /\ AiHoldsEight(gameState)
  /\ \E c \in Range(gameState.aiHand) :
       rankOf(c) # "8" /\ suitOf(c) = suitOf(Head(gameState.discardPile))

(***************************************************************************)
(* C12. Opponent draw and pass rule: when the opponent holds no card that  *)
(* follows and no 8, then with a non-empty draw pile its head card moves   *)
(* to the end of aiHand, and with an empty draw pile no card moves; in     *)
(* both cases discardPile, currentSuit and currentRank are unchanged and   *)
(* turn becomes player.                                                    *)
(***************************************************************************)
C12_OpponentDrawOrPass ==
  [][(lastOp' = "aiTurn" /\ ~AiCanMatch(gameState) /\ ~AiHoldsEight(gameState)) =>
       /\ IF gameState.drawPile # <<>>
            THEN /\ gameState'.aiHand =
                      Append(gameState.aiHand, Head(gameState.drawPile))
                 /\ gameState'.drawPile = Tail(gameState.drawPile)
            ELSE /\ gameState'.aiHand = gameState.aiHand
                 /\ gameState'.drawPile = gameState.drawPile
       /\ gameState'.playerHand = gameState.playerHand
       /\ gameState'.discardPile = gameState.discardPile
       /\ gameState'.currentSuit = gameState.currentSuit
       /\ gameState'.currentRank = gameState.currentRank
       /\ gameState'.turn = "player"]_vars

\* the opponent has just passed: the draw pile was empty, the player gave
\* the turn away without a card to draw, and the opponent had nothing to play
C12_Witness ==
  /\ lastOp = "aiTurn"
  /\ gameState \in LateEmptyPile
  /\ ~AiCanMatch(gameState)
  /\ ~AiHoldsEight(gameState)

(***************************************************************************)
(* C13. One opponent turn moves at most one card: it takes exactly one of  *)
(* the branches match, wild, draw, pass; aiHand changes by at most one     *)
(* card and at most one of discardPile and drawPile changes, by exactly    *)
(* one card.                                                               *)
(***************************************************************************)
C13_OneCardPerTurn ==
  [][lastOp' = "aiTurn" =>
       /\ gameState'.playerHand = gameState.playerHand
       /\ \/ \* match or wild: one card from the hand to the discard pile
             /\ \E i \in 1..Len(gameState.aiHand) :
                  /\ gameState'.aiHand = RemoveAt(gameState.aiHand, i)
                  /\ gameState'.discardPile =
                       <<gameState.aiHand[i]>> \o gameState.discardPile
             /\ gameState'.drawPile = gameState.drawPile
          \/ \* draw: one card from the draw pile to the hand
             /\ gameState.drawPile # <<>>
             /\ gameState'.aiHand =
                  Append(gameState.aiHand, Head(gameState.drawPile))
             /\ gameState'.drawPile = Tail(gameState.drawPile)
             /\ gameState'.discardPile = gameState.discardPile
          \/ \* pass: no card moves
             /\ gameState'.aiHand = gameState.aiHand
             /\ gameState'.drawPile = gameState.drawPile
             /\ gameState'.discardPile = gameState.discardPile]_vars

\* the draw pile is used up and the opponent has just played an 8, the only
\* card that has moved
C13_Witness ==
  /\ lastOp = "aiTurn"
  /\ gameState.status = "playing"
  /\ gameState.drawPile = <<>>
  /\ gameState.discardPile # <<>>
  /\ rankOf(Head(gameState.discardPile)) = "8"
  /\ gameState.currentRank = "8"
  /\ \E late \in LateEmptyPile :
       /\ gameState.playerHand = late.playerHand
       /\ Tail(gameState.discardPile) = late.discardPile
       /\ Len(gameState.aiHand) = Len(late.aiHand) - 1

(***************************************************************************)
(* C14. Deal postcondition: after a start or restart from any state,       *)
(* playerHand and aiHand hold 8 cards each, discardPile holds exactly one  *)
(* card and it is no 8, drawPile holds 35 cards, currentSuit and           *)
(* currentRank are those of the discard card, turn = player, status =      *)
(* playing and winner = null.                                              *)
(***************************************************************************)
C14_DealPostcondition ==
  [][lastOp' = "initGame" =>
       /\ Len(gameState'.playerHand) = 8
       /\ Len(gameState'.aiHand) = 8
       /\ Len(gameState'.discardPile) = 1
       /\ rankOf(gameState'.discardPile[1]) # "8"
       /\ Len(gameState'.drawPile) = 35
       /\ gameState'.currentSuit = suitOf(gameState'.discardPile[1])
       /\ gameState'.currentRank = rankOf(gameState'.discardPile[1])
       /\ gameState'.turn = "player"
       /\ gameState'.status = "playing"
       /\ gameState'.winner = "null"]_vars

\* a deal has just passed over an 8 to find the first discard
C14_Witness ==
  /\ lastOp = "initGame"
  /\ Len(gameState.drawPile) = 35
  /\ rankOf(gameState.drawPile[1]) = "8"
  /\ rankOf(gameState.discardPile[1]) # "8"

(***************************************************************************)
(* C15. Player wild-8 play: when the player plays an 8 on their turn in    *)
(* status playing, the card leaves playerHand and becomes the discard      *)
(* head, status becomes suit-picking, and currentSuit, currentRank and     *)
(* turn are left as they were until a suit is chosen.                      *)
(***************************************************************************)
C15_PlayerEight ==
  [][/\ \A card \in Range(gameState.playerHand) :
          (PlayersTurn /\ rankOf(card) = "8" /\ PlayCardOf(card)) =>
            /\ gameState'.playerHand = FilterOutId(gameState.playerHand, card)
            /\ Len(gameState'.playerHand) = Len(gameState.playerHand) - 1
            /\ gameState'.discardPile = <<card>> \o gameState.discardPile
            /\ gameState'.status = "suit-picking"
            /\ gameState'.currentSuit = gameState.currentSuit
            /\ gameState'.currentRank = gameState.currentRank
            /\ gameState'.turn = gameState.turn
     /\ (gameState.status = "suit-picking"
           /\ lastOp' \notin {"pickSuit", "initGame"}) =>
          /\ gameState'.currentSuit = gameState.currentSuit
          /\ gameState'.currentRank = gameState.currentRank
          /\ gameState'.turn = gameState.turn]_vars

\* the player has just played an 8 of another suit on a card that is no 8
C15_Witness ==
  /\ lastOp = "playCard"
  /\ gameState.status = "suit-picking"
  /\ gameState.turn = "player"
  /\ rankOf(Head(gameState.discardPile)) = "8"
  /\ gameState.currentRank # "8"
  /\ gameState.currentSuit # suitOf(Head(gameState.discardPile))

(***************************************************************************)
(* C16. Suit choice resolution: choosing suit s while status is            *)
(* suit-picking sets currentSuit = s, currentRank = 8, status = playing    *)
(* and turn = ai, and leaves playerHand, aiHand, drawPile and discardPile  *)
(* unchanged.                                                              *)
(***************************************************************************)
C16_SuitChoice ==
  [][\A suit \in Range(Suit) :
       (gameState.status = "suit-picking" /\ PickSuitOf(suit)) =>
         /\ gameState'.currentSuit = suit
         /\ gameState'.currentRank = "8"
         /\ gameState'.status = "playing"
         /\ gameState'.turn = "ai"
         /\ gameState'.playerHand = gameState.playerHand
         /\ gameState'.aiHand = gameState.aiHand
         /\ gameState'.drawPile = gameState.drawPile
         /\ gameState'.discardPile = gameState.discardPile]_vars

(***************************************************************************)
(* C17. Player non-8 play: an accepted play of a card that is no 8 and is  *)
(* held by the player removes exactly that card from playerHand, whose     *)
(* length drops by 1, makes it the discard head, sets currentSuit and      *)
(* currentRank to its suit and rank, sets turn = ai, and leaves aiHand and *)
(* drawPile unchanged.                                                     *)
(***************************************************************************)
C17_PlayerPlay ==
  [][\A card \in Range(gameState.playerHand) :
       (PlayersTurn /\ rankOf(card) # "8" /\ PlayCardOf(card)
          /\ Legal(card, gameState.currentSuit, gameState.currentRank)) =>
         /\ Range(gameState'.playerHand) = Range(gameState.playerHand) \ {card}
         /\ Len(gameState'.playerHand) = Len(gameState.playerHand) - 1
         /\ \A i, j \in 1..Len(gameState.playerHand) :
              (i < j /\ gameState.playerHand[i] # card /\ gameState.playerHand[j] # card) =>
                \E m, n \in 1..Len(gameState'.playerHand) :
                  /\ m < n
                  /\ gameState'.playerHand[m] = gameState.playerHand[i]
                  /\ gameState'.playerHand[n] = gameState.playerHand[j]
         /\ gameState'.discardPile = <<card>> \o gameState.discardPile
         /\ gameState'.currentSuit = suitOf(card)
         /\ gameState'.currentRank = rankOf(card)
         /\ gameState'.turn = "ai"
         /\ gameState'.aiHand = gameState.aiHand
         /\ gameState'.drawPile = gameState.drawPile]_vars

\* the player has just followed by rank with a card of another suit
C17_Witness ==
  /\ lastOp = "playCard"
  /\ gameState.turn = "ai"
  /\ Len(gameState.discardPile) > 1
  /\ rankOf(Head(gameState.discardPile)) # "8"
  /\ rankOf(Head(gameState.discardPile)) = rankOf(gameState.discardPile[2])
  /\ gameState.currentSuit = suitOf(Head(gameState.discardPile))
  /\ gameState.currentRank = rankOf(Head(gameState.discardPile))
  /\ suitOf(Head(gameState.discardPile)) # suitOf(gameState.discardPile[2])

(***************************************************************************)
(* C18. Player draw: on the player's turn in status playing, drawCard with *)
(* a non-empty draw pile moves the head card of drawPile to the end of     *)
(* playerHand and sets turn = ai; with an empty draw pile it moves no card *)
(* and still sets turn = ai; in both cases discardPile, aiHand,            *)
(* currentSuit and currentRank are unchanged.                              *)
(***************************************************************************)
C18_PlayerDraw ==
  [][(lastOp' = "drawCard" /\ PlayersTurn) =>
       /\ IF gameState.drawPile # <<>>
            THEN /\ gameState'.playerHand =
                      Append(gameState.playerHand, Head(gameState.drawPile))
                 /\ gameState'.drawPile = Tail(gameState.drawPile)
            ELSE /\ gameState'.playerHand = gameState.playerHand
                 /\ gameState'.drawPile = gameState.drawPile
       /\ gameState'.turn = "ai"
       /\ gameState'.discardPile = gameState.discardPile
       /\ gameState'.aiHand = gameState.aiHand
       /\ gameState'.currentSuit = gameState.currentSuit
       /\ gameState'.currentRank = gameState.currentRank]_vars

\* the player has just asked for a card with the draw pile used up: nothing
\* has moved and the turn is the opponent's
C18_Witness ==
  /\ lastOp = "drawCard"
  /\ gameState.turn = "ai"
  /\ \E late \in LateEmptyPile : gameState = [late EXCEPT !.turn = "ai"]

(***************************************************************************)
(* C19. Active-card consistency: in every state with status playing or     *)
(* game-over, if the discard head is no 8 then currentSuit and currentRank *)
(* are its suit and rank, and if the discard head is an 8 then currentRank *)
(* is 8.                                                                   *)
(***************************************************************************)
C19_ActiveCard ==
  (gameState.status \in {"playing", "game-over"} /\ gameState.discardPile # <<>>) =>
    LET head == Head(gameState.discardPile)
    IN IF rankOf(head) # "8"
         THEN /\ gameState.currentSuit = suitOf(head)
              /\ gameState.currentRank = rankOf(head)
         ELSE gameState.currentRank = "8"

\* the player has chosen a suit other than that of the 8 played
C19_Witness ==
  /\ lastOp = "pickSuit"
  /\ gameState.status = "playing"
  /\ gameState.discardPile # <<>>
  /\ rankOf(Head(gameState.discardPile)) = "8"
  /\ gameState.currentRank = "8"
  /\ gameState.currentSuit # suitOf(Head(gameState.discardPile))
  /\ rankOf(gameState.discardPile[2]) # "8"

(***************************************************************************)
(* C20. The opponent cannot act during suit-picking: while status is       *)
(* suit-picking no opponent move is applied and no opponent timer is       *)
(* pending, and between the player's 8 and the suit choice aiHand,         *)
(* drawPile, discardPile, currentSuit, currentRank and turn do not change. *)
(***************************************************************************)
C20_NoOpponentWhilePicking ==
  [][gameState.status = "suit-picking" =>
       /\ timer = <<>>
       /\ lastOp' # "aiTurn"
       /\ lastOp' \notin {"pickSuit", "initGame"} =>
            /\ gameState'.status = "suit-picking"
            /\ gameState'.aiHand = gameState.aiHand
            /\ gameState'.drawPile = gameState.drawPile
            /\ gameState'.discardPile = gameState.discardPile
            /\ gameState'.currentSuit = gameState.currentSuit
            /\ gameState'.currentRank = gameState.currentRank
            /\ gameState'.turn = gameState.turn]_vars

\* a card has been asked for while the player was choosing a suit, the
\* opponent having moved earlier in the game
C20_Witness ==
  /\ lastOp = "drawCard"
  /\ gameState.status = "suit-picking"
  /\ gameState.turn = "player"
  /\ Len(gameState.aiHand) # INITIAL_HAND_SIZE

(***************************************************************************)
(* C21. Opponent determinism: in two states with the same aiHand (cards    *)
(* and order), currentSuit, currentRank and drawPile the opponent takes    *)
(* the same branch, card and suit, and the resulting aiHand, discard head, *)
(* currentSuit, currentRank and turn are the same.                         *)
(***************************************************************************)
C21_SameOutcome ==
  [][lastOp' = "aiTurn" =>
       \A twin \in OpeningStates :
         SameForOpponent(gameState, twin) =>
           LET other == handleAiTurn(twin, twin)
           IN /\ gameState'.aiHand = other.aiHand
              /\ Head(gameState'.discardPile) = Head(other.discardPile)
              /\ gameState'.currentSuit = other.currentSuit
              /\ gameState'.currentRank = other.currentRank
              /\ gameState'.turn = other.turn]_vars

(***************************************************************************)
(* C21, amended. In two states with the same aiHand (cards and order),     *)
(* currentSuit, currentRank and drawPile the opponent takes the same       *)
(* branch, card and suit: the resulting aiHand, drawPile, currentSuit,     *)
(* currentRank and turn are the same, and so is the card put on the        *)
(* discard pile when one is played.  On a draw or a pass each state keeps  *)
(* the discard head it had.                                                *)
(***************************************************************************)
C21_SameMove ==
  [][lastOp' = "aiTurn" =>
       \A twin \in OpeningStates :
         SameForOpponent(gameState, twin) =>
           LET other == handleAiTurn(twin, twin)
           IN /\ gameState'.aiHand = other.aiHand
              /\ gameState'.drawPile = other.drawPile
              /\ gameState'.currentSuit = other.currentSuit
              /\ gameState'.currentRank = other.currentRank
              /\ gameState'.turn = other.turn
              /\ IF Len(other.discardPile) > Len(twin.discardPile)
                   THEN /\ Discarded
                        /\ Head(gameState'.discardPile) = Head(other.discardPile)
                   ELSE gameState'.discardPile = gameState.discardPile]_vars

\* the opponent has just moved in one of two states that differ in the
\* player's hand and in the 8 on the discard pile and are the same to the
\* opponent
C21_Witness ==
  /\ lastOp = "aiTurn"
  /\ gameState.turn = "player"
  /\ rankOf(Head(gameState.discardPile)) = "8"
  /\ \E twin \in OpeningStates :
       LET other == handleAiTurn(twin, twin)
       IN /\ gameState.aiHand = other.aiHand
          /\ gameState.drawPile = other.drawPile
          /\ gameState.currentSuit = other.currentSuit
          /\ gameState.currentRank = other.currentRank
          /\ Tail(gameState.discardPile) = Tail(other.discardPile)
          /\ Head(gameState.discardPile) # Head(other.discardPile)
          /\ Range(gameState.playerHand) # Range(other.playerHand)

(***************************************************************************)
(* C22. isAiThinking tracks a pending opponent move: in every reachable    *)
(* state isAiThinking is true only while an opponent-move timer is         *)
(* pending.                                                                *)
(***************************************************************************)
C22_ThinkingOnlyWhilePending ==
  isAiThinking => timer # <<>>

(***************************************************************************)
(* C23. The highlight agrees with the validator: in every reachable state  *)
(* a card of playerHand is marked isPlayable in the hand view if and only  *)
(* if a playCard request for it in that state changes the game state.      *)
(***************************************************************************)
C23_HighlightAgrees ==
  \A card \in Range(gameState.playerHand) :
    isPlayable(gameState, card) <=> playCard(gameState, gameState, card) # gameState

\* after the opponent has played an 8 the player holds a card that is
\* highlighted and accepted and a card that is neither
C23_Witness ==
  /\ lastOp = "aiTurn"
  /\ gameState.turn = "player" /\ gameState.status = "playing"
  /\ gameState.currentRank = "8"
  /\ \E c, d \in Range(gameState.playerHand) :
       /\ isPlayable(gameState, c)
       /\ playCard(gameState, gameState, c).turn = "ai"
       /\ ~isPlayable(gameState, d)
       /\ playCard(gameState, gameState, d) = gameState

====
